---- MODULE Spec2Model ----
(***************************************************************************)
(* A model of txtnets' cpu/space.py (Space: named-axis layouts of dense    *)
(* arrays) and cpu/optimize/data_provider.py (minibatch providers).        *)
(*                                                                         *)
(* Arrays are records [shape, data]: data is the row-major (C order)       *)
(* flattening numpy uses.  An OrderedDict is a sequence of [k, v] records  *)
(* in insertion order.  An axis entry of a Space is kept as list(ax), the  *)
(* only way the code ever reads it: a leaf 'b' is <<"b">>, a group         *)
(* ['b','w'] is <<"b","w">>.  Python exceptions are results with ok =      *)
(* FALSE and the exception's name in err.                                  *)
(***************************************************************************)
EXTENDS Integers, Sequences, FiniteSets, TLC

\* ------------------------------------------------------------------ bounds
MaxRank == 2
MaxDim == 2
MaxLeaves == 3
MaxRep == 2
MaxElems == 8
MaxSteps == 2
MaxRows == 4
MaxCalls == 5

\* ------------------------------------------------------------ python/numpy
Range(s) == {s[i] : i \in 1..Len(s)}

Distinct(s) == \A i, j \in 1..Len(s) : i # j => s[i] # s[j]

\* the first position of x in s (list.index), 0 when x is not in s
IndexOf(s, x) ==
    IF x \in Range(s)
    THEN CHOOSE i \in 1..Len(s) : s[i] = x /\ \A j \in 1..(i-1) : s[j] # x
    ELSE 0

RECURSIVE Prod(_)
Prod(s) == IF s = <<>> THEN 1 ELSE Head(s) * Prod(Tail(s))

RECURSIVE Flatten(_)
Flatten(ss) == IF ss = <<>> THEN <<>> ELSE Head(ss) \o Flatten(Tail(ss))

\* _fold_axes: list(ax) for every axis, then the concatenation
fold_axes(unfolded) ==
    LET folded == [i \in 1..Len(unfolded) |-> unfolded[i]]
    IN  Flatten(folded)

\* OrderedDict
OdKeys(od) == [i \in 1..Len(od) |-> od[i].k]
OdValues(od) == [i \in 1..Len(od) |-> od[i].v]
OdHas(od, key) == \E i \in 1..Len(od) : od[i].k = key
OdGet(od, key, default) ==
    IF OdHas(od, key)
    THEN od[CHOOSE i \in 1..Len(od) : od[i].k = key].v
    ELSE default
\* od[key] = val: an existing key keeps its position, a new one goes last
OdSet(od, key, val) ==
    IF OdHas(od, key)
    THEN [i \in 1..Len(od) |-> IF od[i].k = key THEN [k |-> key, v |-> val] ELSE od[i]]
    ELSE Append(od, [k |-> key, v |-> val])
\* OrderedDict(pairs): the pairs are inserted left to right
RECURSIVE OdFromPairs(_)
OdFromPairs(pairs) ==
    IF pairs = <<>> THEN <<>>
    ELSE LET n == Len(pairs)
         IN  OdSet(OdFromPairs(SubSeq(pairs, 1, n-1)), pairs[n].k, pairs[n].v)

\* zip(a, b): as long as the shorter one
Zip(a, b) ==
    LET n == IF Len(a) < Len(b) THEN Len(a) ELSE Len(b)
    IN  [i \in 1..n |-> [k |-> a[i], v |-> b[i]]]

\* row-major index arithmetic (0-based indices, as numpy's)
RECURSIVE Unravel(_, _)
Unravel(flat, shp) ==
    IF shp = <<>> THEN <<>>
    ELSE LET p == Prod(Tail(shp))
         IN  <<flat \div p>> \o Unravel(flat % p, Tail(shp))

RECURSIVE Ravel(_, _)
Ravel(idx, shp) ==
    IF shp = <<>> THEN 0
    ELSE Head(idx) * Prod(Tail(shp)) + Ravel(Tail(idx), Tail(shp))

NpSize(A) == Len(A.data)
NpAt(A, idx) == A.data[Ravel(idx, A.shape) + 1]

Result(okv, errv, Av) == [ok |-> okv, err |-> errv, X |-> Av]
NoArray == [shape |-> <<>>, data |-> <<>>]

\* np.reshape(A, shp): the same elements in the same row-major order
NpReshape(A, shp) ==
    IF Prod(shp) = NpSize(A)
    THEN Result(TRUE, "", [shape |-> shp, data |-> A.data])
    ELSE Result(FALSE, "ValueError", NoArray)

\* a slip: the dimensions renamed, the elements left where they were
NpTransposeShapeOnly(A, perm) ==
    IF Len(perm) # Len(A.shape)
       \/ ~ Distinct(perm)
       \/ \E i \in 1..Len(perm) : perm[i] \notin 1..Len(A.shape)
    THEN Result(FALSE, "ValueError", NoArray)
    ELSE Result(TRUE, "", [shape |-> [i \in 1..Len(perm) |-> A.shape[perm[i]]],
                           data |-> A.data])

\* np.transpose(A, perm): perm[i] is the (1-based) source dimension of the
\* result's i-th dimension; it must name every dimension of A exactly once
NpTranspose(A, perm) ==
    IF Len(perm) # Len(A.shape)
       \/ ~ Distinct(perm)
       \/ \E i \in 1..Len(perm) : perm[i] \notin 1..Len(A.shape)
    THEN Result(FALSE, "ValueError", NoArray)
    ELSE LET shp == [i \in 1..Len(perm) |-> A.shape[perm[i]]]
             src(idx) == [j \in 1..Len(A.shape) |-> idx[IndexOf(perm, j)]]
         IN  Result(TRUE, "",
                    [shape |-> shp,
                     data |-> [n \in 1..Prod(shp) |-> NpAt(A, src(Unravel(n-1, shp)))]])

\* np.concatenate([A]*times, axis): times copies of A one after the other
\* along the (1-based) dimension axis; an empty list of arrays is an error
NpConcatSelf(A, times, axis) ==
    IF times < 1 \/ axis \notin 1..Len(A.shape)
    THEN Result(FALSE, "ValueError", NoArray)
    ELSE LET shp == [i \in 1..Len(A.shape) |->
                        IF i = axis THEN A.shape[i] * times ELSE A.shape[i]]
             src(idx) == [j \in 1..Len(idx) |->
                        IF j = axis THEN idx[j] % A.shape[j] ELSE idx[j]]
         IN  Result(TRUE, "",
                    [shape |-> shp,
                     data |-> [n \in 1..Prod(shp) |-> NpAt(A, src(Unravel(n-1, shp)))]])

\* ------------------------------------------------------------------- Space
\* A Space value: [axes |-> the axis list, extent |-> the OrderedDict].
Space(axes, extent) == [axes |-> axes, extent |-> extent]
NoSpace == Space(<<>>, <<>>)

folded_axes(sp) == fold_axes(sp.axes)

size(sp) == Prod(OdValues(sp.extent))

folded_shape(sp) == OdValues(sp.extent)

\* the product of the extents whose key is a member of list(ax)
RECURSIVE ProdWhere(_, _)
ProdWhere(od, keys) ==
    IF od = <<>> THEN 1
    ELSE (IF Head(od).k \in keys THEN Head(od).v ELSE 1) * ProdWhere(Tail(od), keys)

size_of_axis(sp, ax) == ProdWhere(sp.extent, Range(ax))

shape(sp) == [i \in 1..Len(sp.axes) |-> size_of_axis(sp, sp.axes[i])]

get_extent(sp, axes) == [i \in 1..Len(axes) |-> size_of_axis(sp, axes[i])]

\* a call of get_extent: no label makes it raise (np.prod of no extents
\* is 1)
get_extent_call(sp, axes) == [ok |-> TRUE, err |-> "", value |-> get_extent(sp, axes)]

fold(sp, A) == NpReshape(A, folded_shape(sp))

unfold(sp, A) == NpReshape(A, shape(sp))

\* Space.infer(X, axes); axes is a flat list of labels
infer(A, labels) ==
    IF Len(A.shape) # Len(labels)
    THEN [ok |-> FALSE, err |-> "AssertionError", space |-> NoSpace]
    ELSE [ok |-> TRUE, err |-> "",
          space |-> Space([i \in 1..Len(labels) |-> <<labels[i]>>],
                          OdFromPairs(Zip(labels, A.shape)))]

SpaceResult(okv, errv, Av, spv) == [ok |-> okv, err |-> errv, X |-> Av, space |-> spv]

RECURSIVE SetAllOne(_, _)
SetAllOne(od, keys) ==
    IF keys = <<>> THEN od ELSE SetAllOne(OdSet(od, Head(keys), 1), Tail(keys))

\* a slip: the positions of the old leaves among the new ones
transpose_order_inverse(e, n) == [i \in 1..Len(e) |-> IndexOf(n, e[i])]

\* [expanded_space.folded_axes.index(d) for d in new_space.folded_axes]
transpose_order(e, n) == [i \in 1..Len(n) |-> IndexOf(e, n[i])]

\* Space.transform(X, new_axes).  order is the order in which the loop over
\* set(new) - set(old) visits the missing labels (a set's iteration order).
transform(sp, A, new_axes, order) ==
    LET newfl == fold_axes(new_axes)
        new_extent == OdFromPairs([i \in 1..Len(newfl) |->
                          [k |-> newfl[i], v |-> OdGet(sp.extent, newfl[i], 1)]])
        new_space == Space(new_axes, new_extent)
        sub == Range(folded_axes(sp)) \subseteq Range(folded_axes(new_space))
        expanded_space ==
            IF sub
            THEN Space(sp.axes \o [i \in 1..Len(order) |-> <<order[i]>>],
                       SetAllOne(sp.extent, order))
            ELSE sp
        r1 == fold(expanded_space, A)
        r2 == NpTranspose(r1.X, transpose_order(folded_axes(expanded_space),
                                                folded_axes(new_space)))
        r3 == unfold(new_space, r2.X)
    IN  IF Range(folded_axes(expanded_space)) # Range(folded_axes(new_space))
        THEN SpaceResult(FALSE, "AssertionError", NoArray, NoSpace)
        ELSE IF ~ r1.ok THEN SpaceResult(FALSE, r1.err, NoArray, NoSpace)
        ELSE IF ~ r2.ok THEN SpaceResult(FALSE, r2.err, NoArray, NoSpace)
        ELSE IF ~ r3.ok THEN SpaceResult(FALSE, r3.err, NoArray, NoSpace)
        ELSE SpaceResult(TRUE, "", r3.X, new_space)

\* the orders in which the missing labels of a transform may be visited
Orders(S) == {o \in [1..Cardinality(S) -> S] : Range(o) = S}
MissingOrders(sp, new_axes) ==
    Orders(Range(fold_axes(new_axes)) \ Range(folded_axes(sp)))

\* the loop of broadcast: replicas is the sequence of [k, v] items in the
\* order replicas.iteritems() yields them
RECURSIVE Replicate(_, _, _)
Replicate(sp, r, replicas) ==
    IF ~ r.ok \/ replicas = <<>> THEN r
    ELSE LET ax == Head(replicas).k
             times == Head(replicas).v
         IN  IF ax \notin Range(folded_axes(sp))
             THEN Result(FALSE, "ValueError", NoArray)
             ELSE Replicate(sp,
                            NpConcatSelf(r.X, times, IndexOf(folded_axes(sp), ax)),
                            Tail(replicas))

\* Space.broadcast(X, **replicas)
broadcast(sp, A, replicas) ==
    LET fl == fold_axes(sp.axes)
        new_extent == OdFromPairs([i \in 1..Len(fl) |->
                          [k |-> fl[i],
                           v |-> OdGet(sp.extent, fl[i], 0) * OdGet(replicas, fl[i], 1)]])
        new_space == Space(sp.axes, new_extent)
        r1 == fold(sp, A)
        r2 == Replicate(sp, r1, replicas)
        r3 == unfold(new_space, r2.X)
    IN  IF \E i \in 1..Len(fl) : ~ OdHas(sp.extent, fl[i])
        THEN SpaceResult(FALSE, "KeyError", NoArray, NoSpace)
        ELSE IF ~ r1.ok THEN SpaceResult(FALSE, r1.err, NoArray, NoSpace)
        ELSE IF ~ r2.ok THEN SpaceResult(FALSE, r2.err, NoArray, NoSpace)
        ELSE IF NpSize(r2.X) # size(new_space)
        THEN SpaceResult(FALSE, "AssertionError", NoArray, NoSpace)
        ELSE IF ~ r3.ok THEN SpaceResult(FALSE, r3.err, NoArray, NoSpace)
        ELSE SpaceResult(TRUE, "", r3.X, new_space)

\* ------------------------------------------------------- Space, as objects
\* Two Space objects may hold the same OrderedDict: an object is
\* [axes, ref], ref an index into heap (0: no object), heap the sequence of
\* the OrderedDicts alive.  X is the array the caller passes along with cur;
\* old is the receiver of the last clone or set_extent and kept a third
\* object the caller still holds.  infer, transform and broadcast change no
\* object and raise out of local values only, so a call that raised leaves
\* the objects as they were before it: the run is ended there, last.ok
\* FALSE, and no state is lost by it.
VARIABLES X, cur, old, kept, heap, pre, last, steps, S0size, replProd

svars == <<X, cur, old, kept, heap, pre, last, steps, S0size, replProd>>

\* kind is the class: "mb" MinibatchDataProvider, "ps"
\* PaddedSequenceMinibatchProvider, "ls" LabelledSequenceMinibatchProvider.
\* dataX, dataY, dataLengths are self.X, self.Y, self.lengths (<<>> where the
\* class has none); a row of X is a sequence of numbers.  phase is "new"
\* before the constructor, "ready" when the last call returned, "raised"
\* when it raised (perr names the exception).  out is what the last next_batch returned; calls, shuffled
\* and visited record the calls made, whether the last one shuffled, and
\* the rows returned since the index was last set to 0; given holds the
\* arrays as they were passed to the constructor.
VARIABLES kind, dataX, dataY, dataLengths, batch_size, padding, shuffle, batch_index, batches_per_epoch, phase, perr, out, calls, shuffled, visited, given

pvars == <<kind, dataX, dataY, dataLengths, batch_size, padding, shuffle,
           batch_index, batches_per_epoch, phase, perr, out, calls, shuffled,
           visited, given>>

NoObj == [axes |-> <<>>, ref |-> 0]
Obj(axes, ref) == [axes |-> axes, ref |-> ref]
Val(obj, h) == Space(obj.axes, IF obj.ref = 0 THEN <<>> ELSE h[obj.ref])

\* what a caller can read of a Space
Obs(sp) == [extent |-> sp.extent, size |-> size(sp),
            shape |-> shape(sp), folded_shape |-> folded_shape(sp)]
NoObs == Obs(NoSpace)
NoPre == [rcv |-> NoObs, by |-> NoObs]

\* Space.clone(): Space(self._axes, self._extent), the same OrderedDict
clone(obj) == Obj(obj.axes, obj.ref)

\* the loop of set_extent on the OrderedDict of the clone
RECURSIVE SetAll(_, _)
SetAll(od, extents) ==
    IF extents = <<>> THEN od
    ELSE SetAll(OdSet(od, Head(extents).k, Head(extents).v), Tail(extents))

\* Space.set_extent(**extents) on obj: the returned object and the heap
set_extent(obj, h, extents) ==
    LET space == clone(obj)
    IN  [space |-> space,
         heap |-> [h EXCEPT ![space.ref] = SetAll(h[space.ref], extents)]]

\* the heap cells in use, in the order cur, old, kept first name them
LiveRefs(c, o, k) ==
    LET all == <<c.ref, o.ref, k.ref>>
        first(i) == all[i] # 0 /\ \A j \in 1..(i-1) : all[j] # all[i]
        at == SelectSeq(<<1, 2, 3>>, first)
    IN  [i \in 1..Len(at) |-> all[at[i]]]
Renumber(obj, rs) == Obj(obj.axes, IF obj.ref = 0 THEN 0 ELSE IndexOf(rs, obj.ref))

\* the caller now holds c, o and k; dead cells of h are dropped
Hold(c, o, k, h) ==
    \E rs \in {LiveRefs(c, o, k)} :
        /\ cur' = Renumber(c, rs)
        /\ old' = Renumber(o, rs)
        /\ kept' = Renumber(k, rs)
        /\ heap' = [i \in 1..Len(rs) |-> h[rs[i]]]

Called(op, okv, errv) == [op |-> op, ok |-> okv, err |-> errv]

\* ------------------------------------------------------------- the inputs
Labels == {"b", "w", "f"}
LabelSeq == <<"b", "w", "f">>

Dims == 1..MaxDim
Shapes == UNION {[1..r -> Dims] : r \in 1..MaxRank}
Arrays == {[shape |-> shp, data |-> [n \in 1..Prod(shp) |-> n]] : shp \in Shapes}

ListsOver(L, n) == UNION {[1..m -> L] : m \in 1..n}
\* a list of labels up to renaming: new labels appear in the order b, w, f
Canonical(ls) ==
    \A i \in 1..Len(ls) :
        \A j \in 1..(IndexOf(LabelSeq, ls[i]) - 1) :
            LabelSeq[j] \in Range(SubSeq(ls, 1, i-1))
InferLists == {ls \in ListsOver(Labels, MaxRank + 1) : Canonical(ls)}

\* every grouping of a list of labels into consecutive non-empty groups
RECURSIVE Groupings(_)
Groupings(ls) ==
    IF ls = <<>> THEN {<<>>}
    ELSE UNION {{<<SubSeq(ls, 1, n)>> \o g : g \in Groupings(SubSeq(ls, n+1, Len(ls)))}
                : n \in 1..Len(ls)}
Targets == UNION {Groupings(ls) : ls \in ListsOver(Labels, MaxLeaves)}

\* keyword arguments, as the items of the dict in the order it yields them
Items(keys, vals) ==
    {<<>>} \cup {<<[k |-> a, v |-> n]>> : a \in keys, n \in vals}
           \cup {it \in {<<[k |-> a, v |-> n], [k |-> c, v |-> m]>> :
                             a \in keys, c \in keys, n \in vals, m \in vals} :
                    it[1].k # it[2].k}
Replicas == Items(Labels, 0..MaxRep)
Extents == Items(Labels, Dims)

\* ------------------------------------------------------------- the actions
InitSpace ==
    /\ X = NoArray
    /\ cur = NoObj /\ old = NoObj /\ kept = NoObj
    /\ heap = <<>>
    /\ pre = NoPre
    /\ last = Called("", TRUE, "")
    /\ steps = 0
    /\ S0size = 0 /\ replProd = 1

Raised(op, err) ==
    /\ last' = Called(op, FALSE, err)
    /\ UNCHANGED <<X, cur, old, kept, heap, pre, steps, S0size, replProd>>

Infer ==
    \E A \in Arrays, labels \in InferLists :
        /\ cur = NoObj /\ last.ok
        /\ UNCHANGED pvars
        /\ \E r \in {infer(A, labels)} :
               IF r.ok
               THEN /\ X' = A
                    /\ Hold(Obj(r.space.axes, 1), NoObj, NoObj, <<r.space.extent>>)
                    /\ pre' = NoPre
                    /\ last' = Called("infer", TRUE, "")
                    /\ S0size' = size(r.space)
                    /\ UNCHANGED <<steps, replProd>>
               ELSE Raised("infer", r.err)

Transform ==
    \E new_axes \in Targets :
      \E order \in MissingOrders(Val(cur, heap), new_axes) :
        /\ cur # NoObj /\ last.ok /\ steps < MaxSteps
        /\ UNCHANGED pvars
        /\ \E r \in {transform(Val(cur, heap), X, new_axes, order)} :
               IF r.ok
               THEN /\ X' = r.X
                    /\ Hold(Obj(r.space.axes, 1), NoObj, NoObj, <<r.space.extent>>)
                    /\ pre' = NoPre
                    /\ last' = Called("transform", TRUE, "")
                    /\ steps' = steps + 1
                    /\ UNCHANGED <<S0size, replProd>>
               ELSE Raised("transform", r.err)

Broadcast ==
    \E replicas \in Replicas :
        /\ cur # NoObj /\ last.ok /\ steps < MaxSteps
        /\ UNCHANGED pvars
        /\ \E r \in {broadcast(Val(cur, heap), X, replicas)} :
               IF r.ok
               THEN /\ NpSize(r.X) <= MaxElems
                    /\ X' = r.X
                    /\ Hold(Obj(r.space.axes, 1), NoObj, NoObj, <<r.space.extent>>)
                    /\ pre' = NoPre
                    /\ last' = Called("broadcast", TRUE, "")
                    /\ steps' = steps + 1
                    /\ replProd' = replProd * Prod(OdValues(replicas))
                    /\ UNCHANGED S0size
               ELSE Raised("broadcast", r.err)

Clone ==
    /\ cur # NoObj /\ last.ok /\ steps < MaxSteps
    /\ UNCHANGED pvars
    /\ Hold(clone(cur), cur, NoObj, heap)
    /\ pre' = [rcv |-> Obs(Val(cur, heap)), by |-> NoObs]
    /\ last' = Called("clone", TRUE, "")
    /\ steps' = steps + 1
    /\ UNCHANGED <<X, S0size, replProd>>

\* set_extent on cur (the other object the caller holds is old) or on old
SetExtent ==
    \E extents \in Extents, onCur \in BOOLEAN :
        \E rcv \in {IF onCur THEN cur ELSE old}, by \in {IF onCur THEN old ELSE cur} :
            /\ rcv # NoObj /\ last.ok /\ steps < MaxSteps
            /\ UNCHANGED pvars
            /\ \E r \in {set_extent(rcv, heap, extents)} :
                   Hold(r.space, rcv, by, r.heap)
            /\ pre' = [rcv |-> Obs(Val(rcv, heap)), by |-> Obs(Val(by, heap))]
            /\ last' = Called("set_extent", TRUE, "")
            /\ steps' = steps + 1
            /\ UNCHANGED <<X, S0size, replProd>>


\* ------------------------------------------------------ minibatch providers
Kinds == {"mb", "ps", "ls"}
BatchSizes == (-1)..(MaxRows + 1)
PadValues == {0}

\* the datasets: row i of X is unlike every other row; the sequence
\* providers get rows of lengths 1, 2, 3, 1, ... and the array provider
\* rows of width 2
RowWidth(k, i) == IF k = "mb" THEN 2 ELSE ((i - 1) % 3) + 1
X0(k, D) == [i \in 1..D |-> [c \in 1..RowWidth(k, i) |-> 10 * i + c]]
Y0(k, D) == IF k = "ps" THEN <<>> ELSE [i \in 1..D |-> (2 * i) % 3]
Lengths0(k, D) == IF k = "mb" THEN [i \in 1..D |-> ((i - 1) % 2) + 1] ELSE <<>>

Abs(n) == IF n < 0 THEN -n ELSE n
\* Python 2 int / int and int % int: the quotient rounded down, and the
\* remainder with the sign of the divisor
PyFloorDiv(a, b) ==
    CHOOSE q \in (-(Abs(a) + 1))..(Abs(a) + 1) :
        IF b > 0 THEN 0 <= a - q * b /\ a - q * b < b
                 ELSE b < a - q * b /\ a - q * b <= 0
PyMod(a, b) == a - PyFloorDiv(a, b) * b

\* seq[start:end] of Python, 0-based, negative indices from the end
PySlice(seq, start, end) ==
    LET n == Len(seq)
        norm(i) == IF i < 0 THEN (IF i + n < 0 THEN 0 ELSE i + n)
                   ELSE (IF i > n THEN n ELSE i)
    IN  SubSeq(seq, norm(start) + 1, norm(end))

Max(s) == CHOOSE m \in Range(s) : \A i \in 1..Len(s) : s[i] <= m

Perms(n) == {f \in [1..n -> 1..n] : Range(f) = 1..n}
\* seq[perm]
Take(seq, perm) == [i \in 1..Len(perm) |-> seq[perm[i]]]

\* a slip: the index never wraps
next_index_nowrap(idx, bpe) == idx + 1

\* a slip: one batch more in every epoch
next_index_one_more(idx, bpe) == IF idx + 1 > bpe THEN 0 ELSE idx + 1

\* self._batch_index after _prepare_for_next_batch
next_index(idx, bpe) == PyMod(idx + 1, bpe)
\* a slip: the shuffle flag not looked at
shuffles_whatever_flag(k, idx, sh) == idx = 0

\* whether _prepare_for_next_batch shuffles
shuffles(k, idx, sh) == idx = 0 /\ (k = "mb" \/ sh)

\* a slip: the batch taken to start at its own number
batch_start_index(idx, B) == idx

batch_start(idx, B) == idx * B
batch_end(idx, B) == batch_start(idx, B) + B

Min(a, b) == IF a < b THEN a ELSE b

\* how many entries _shuffle_data permutes: the rows of X, or in the
\* labelled provider the pairs of zip(X, Y), as many as the shorter list
shuffle_size(k, Xs, Ys) == IF k = "ls" THEN Min(Len(Xs), Len(Ys)) ELSE Len(Xs)

Shuffled(okv, errv, Xs, Ys, Ls) ==
    [ok |-> okv, err |-> errv, X |-> Xs, Y |-> Ys, lengths |-> Ls]

\* a slip: the labels left where they were
shuffle_data_X_only(k, Xs, Ys, Ls, perm) ==
    Shuffled(TRUE, "", Take(Xs, perm), Ys, IF k = "mb" THEN Take(Ls, perm) ELSE Ls)

\* _shuffle_data with the permutation perm of shuffle_size entries: the
\* arrays as it leaves them, and the exception if it raises.
\* MinibatchDataProvider assigns X[perm], Y[perm], lengths[perm] one after
\* the other: an array shorter than X raises IndexError with the earlier
\* ones already assigned, a longer one is cut to the entries perm names.
\* The labelled provider shuffles zip(X, Y), which is as long as the
\* shorter list, and unpacks zip(*combined), a ValueError when it is empty.
shuffle_data(k, Xs, Ys, Ls, perm) ==
    IF k = "mb"
    THEN IF Len(Ys) < Len(Xs)
         THEN Shuffled(FALSE, "IndexError", Take(Xs, perm), Ys, Ls)
         ELSE IF Len(Ls) < Len(Xs)
         THEN Shuffled(FALSE, "IndexError", Take(Xs, perm), Take(Ys, perm), Ls)
         ELSE Shuffled(TRUE, "", Take(Xs, perm), Take(Ys, perm), Take(Ls, perm))
    ELSE IF k = "ps"
    THEN Shuffled(TRUE, "", Take(Xs, perm), Ys, Ls)
    ELSE IF perm = <<>>
         THEN Shuffled(FALSE, "ValueError", Xs, Ys, Ls)
         ELSE Shuffled(TRUE, "", Take(Xs, perm), Take(Ys, perm), Ls)

\* a slip: the padding put in front of the row
add_padding_front(x, pad, length) == [i \in 1..(length - Len(x)) |-> pad] \o x

\* _add_padding: x + [padding] * (length - len(x))
add_padding(x, pad, length) == x \o [i \in 1..(length - Len(x)) |-> pad]

\* a slip: one column for every class of the dataset, whatever the batch
OneHotAllClasses(Ys) == [i \in 1..Len(Ys) |-> [c \in 1..3 |-> IF Ys[i] = c - 1 THEN 1 ELSE 0]]

\* np.equal.outer(Y, np.arange(np.max(Y) + 1)).astype(np.float)
OneHot(Ys) == [i \in 1..Len(Ys) |-> [c \in 1..(Max(Ys) + 1) |-> IF Ys[i] = c - 1 THEN 1 ELSE 0]]

NoBatch == [some |-> FALSE, X |-> <<>>, Y |-> <<>>, lengths |-> <<>>, space_below |-> NoSpace]
Batch(Xb, Yb, Lb, sp) == [some |-> TRUE, X |-> Xb, Y |-> Yb, lengths |-> Lb, space_below |-> sp]

\* the rest of next_batch once the index and the data are set: the batch
\* or the exception raised on the way
make_batch(k, Xs, Ys, Ls, idx, B, pad) ==
    LET X_batch == PySlice(Xs, batch_start(idx, B), batch_end(idx, B))
        Y_batch == PySlice(Ys, batch_start(idx, B), batch_end(idx, B))
        lengths_batch == [i \in 1..Len(X_batch) |-> Len(X_batch[i])]
    IN  IF k = "mb"
        THEN [ok |-> TRUE, err |-> "",
              batch |-> Batch(X_batch, Y_batch,
                              PySlice(Ls, batch_start(idx, B), batch_end(idx, B)),
                              infer([shape |-> <<Len(X_batch), Len(Xs[1])>>, data |-> <<>>],
                                    <<"b", "w">>).space)]
        ELSE IF X_batch = <<>> \/ (k = "ls" /\ Y_batch = <<>>)
        THEN [ok |-> FALSE, err |-> "ValueError", batch |-> NoBatch]
        ELSE \* the rows padded to the longest row of the batch
             LET padded == [i \in 1..Len(X_batch) |->
                               add_padding(X_batch[i], pad, Max(lengths_batch))]
             IN  IF k = "ps"
                 THEN [ok |-> TRUE, err |-> "",
                       batch |-> Batch(padded, <<>>, lengths_batch,
                                       infer([shape |-> <<Len(padded), Max(lengths_batch)>>,
                                              data |-> <<>>], <<"b", "w">>).space)]
                 ELSE [ok |-> TRUE, err |-> "",
                       batch |-> Batch(padded, OneHot(Y_batch), lengths_batch,
                                       Space(<<<<"b">>, <<"w">>>>,
                                             OdFromPairs(<<[k |-> "b", v |-> Len(padded)],
                                                           [k |-> "w", v |-> Max(lengths_batch)]>>)))]

NoData == [X |-> <<>>, Y |-> <<>>, lengths |-> <<>>]

InitProvider ==
    /\ kind = "" /\ dataX = <<>> /\ dataY = <<>> /\ dataLengths = <<>>
    /\ batch_size = 0 /\ padding = 0 /\ shuffle = FALSE
    /\ batch_index = -1 /\ batches_per_epoch = 0
    /\ phase = "new" /\ perr = ""
    /\ out = NoBatch /\ calls = 0 /\ shuffled = FALSE /\ visited = <<>>
    /\ given = NoData

\* __init__ of class k on X of DX rows, Y of DY entries and lengths of DL
\* entries (Y and lengths where the class has them): nothing is compared,
\* batches_per_epoch is the row count of X by the batch size
ConstructWith(k, DX, DY, DL, B, pad, sh) ==
    /\ phase = "new"
    /\ UNCHANGED svars
    /\ k = "mb" => sh
    /\ kind' = k /\ batch_size' = B /\ padding' = pad /\ shuffle' = sh
    /\ dataX' = X0(k, DX) /\ dataY' = Y0(k, DY) /\ dataLengths' = Lengths0(k, DL)
    /\ given' = [X |-> X0(k, DX), Y |-> Y0(k, DY), lengths |-> Lengths0(k, DL)]
    /\ batch_index' = -1
    /\ IF B = 0
       THEN phase' = "raised" /\ perr' = "ZeroDivisionError"
            /\ batches_per_epoch' = 0
       ELSE phase' = "ready" /\ perr' = ""
            /\ batches_per_epoch' = PyFloorDiv(DX, B)
    /\ UNCHANGED <<out, calls, shuffled, visited>>

\* __init__ of the three classes on a dataset of D rows, every array of it
\* with D entries
Construct ==
    \E k \in Kinds, D \in 1..MaxRows, B \in BatchSizes, pad \in PadValues, sh \in BOOLEAN :
        ConstructWith(k, D, D, D, B, pad, sh)

\* __init__ of the classes with several arrays on arrays of any lengths
ConstructAny ==
    \E k \in {"mb", "ls"}, DX \in 1..MaxRows, DY \in 0..MaxRows, DL \in 0..MaxRows,
       B \in BatchSizes, pad \in PadValues, sh \in BOOLEAN :
        /\ k = "ls" => DL = DX
        /\ ConstructWith(k, DX, DY, DL, B, pad, sh)

\* next_batch on the provider, also after a call of it that raised: the
\* object stays as the exception left it.  Only a constructor that raised,
\* which it does on batch_size 0 alone, leaves no provider to call.
NextBatch ==
    /\ phase \in {"ready", "raised"} /\ batch_size # 0 /\ calls < MaxCalls
    /\ UNCHANGED svars
    /\ calls' = calls + 1
    /\ UNCHANGED <<kind, batch_size, padding, shuffle, batches_per_epoch, given>>
    /\ IF batches_per_epoch = 0
       THEN /\ phase' = "raised" /\ perr' = "ZeroDivisionError"
            /\ out' = NoBatch /\ shuffled' = FALSE
            /\ UNCHANGED <<dataX, dataY, dataLengths, batch_index, visited>>
       ELSE \E idx \in {next_index(batch_index, batches_per_epoch)} :
            \E perm \in IF shuffles(kind, idx, shuffle)
                        THEN Perms(shuffle_size(kind, dataX, dataY)) ELSE {<<>>} :
            \E d \in {IF shuffles(kind, idx, shuffle)
                      THEN shuffle_data(kind, dataX, dataY, dataLengths, perm)
                      ELSE Shuffled(TRUE, "", dataX, dataY, dataLengths)} :
            \E r \in {IF d.ok
                      THEN make_batch(kind, d.X, d.Y, d.lengths, idx, batch_size, padding)
                      ELSE [ok |-> FALSE, err |-> d.err, batch |-> NoBatch]} :
                /\ batch_index' = idx
                /\ shuffled' = shuffles(kind, idx, shuffle)
                /\ dataX' = d.X /\ dataY' = d.Y /\ dataLengths' = d.lengths
                /\ out' = r.batch
                /\ phase' = IF r.ok THEN "ready" ELSE "raised"
                /\ perr' = r.err
                /\ visited' = (IF idx = 0 THEN <<>> ELSE visited)
                              \o (IF r.ok
                                  THEN PySlice(d.X, batch_start(idx, batch_size),
                                               batch_end(idx, batch_size))
                                  ELSE <<>>)

\* ------------------------------------------------------ the specifications
vars == <<svars, pvars>>
Init == InitSpace /\ InitProvider

\* an array and its Space through infer, transform and broadcast
NextPipe == Infer \/ Transform \/ Broadcast
SpecPipe == Init /\ [][NextPipe]_vars

\* Space objects through every operation of the class
NextSpace == Infer \/ Transform \/ Broadcast \/ Clone \/ SetExtent
SpecSpace == Init /\ [][NextSpace]_vars

\* a provider from its constructor through its next_batch calls
NextProvider == Construct \/ NextBatch
SpecProvider == Init /\ [][NextProvider]_vars

\* the same, the arrays given to the constructor of any lengths
NextAnyProvider == ConstructAny \/ NextBatch
SpecAnyProvider == Init /\ [][NextAnyProvider]_vars

\* ------------------------------------------------------------ Space claims
S == Val(cur, heap)
Leaves(sp) == Range(folded_axes(sp))
HasSpace == cur # NoObj /\ last.ok
\* the array is the one the Space describes
LaidOut == X.shape = shape(S) /\ NpSize(X) = size(S)
\* a target that regroups and reorders the leaves of sp, each once
Regrouping(sp, A) == Leaves(sp) = Range(fold_axes(A)) /\ Distinct(fold_axes(A))

\* C1: after S.set_extent(...), S reads as it did before the call (extent,
\* size, shape and folded_shape), and so does any other Space the caller
\* holds, a clone of S or the Space that S was cloned from.
C1_SetExtentLeavesOthers ==
    last.op = "set_extent" =>
        /\ Obs(Val(old, heap)) = pre.rcv
        /\ (kept # NoObj => Obs(Val(kept, heap)) = pre.by)

\* C2: from Space.infer on, through every successful transform and
\* broadcast, the size of the current Space is the element count of the
\* current array, and it is the size of the inferred Space times the
\* product of the replica counts broadcast so far.
C2_SizeIsElementCount ==
    HasSpace => /\ size(S) = NpSize(X)
                /\ size(S) = S0size * replProd

\* C2 on Spaces with pairwise distinct leaf labels
SizeIsElementCountDistinct ==
    (HasSpace /\ Distinct(folded_axes(S))) =>
        /\ size(S) = NpSize(X)
        /\ size(S) = S0size * replProd

\* C3: for a Space with pairwise distinct leaves and the array it
\* describes, transforming to any regrouping and reordering of the leaves
\* and then back to the Space's own axes gives back the array, element for
\* element, and a Space with the same axes and the same extent.
C3_RoundTrip ==
    (HasSpace /\ Distinct(folded_axes(S)) /\ LaidOut) =>
        \A A \in Targets :
            Regrouping(S, A) =>
                \E r1 \in {transform(S, X, A, <<>>)} :
                    /\ r1.ok
                    /\ \E r2 \in {transform(r1.space, r1.X, S.axes, <<>>)} :
                           r2.ok /\ r2.X = X /\ r2.space = S

\* a transform has moved elements of an array of three leaves, two of them
\* longer than 1, and the Space is grouped: the round trip from here
\* undoes a transposition and a fold
C3_Witness ==
    /\ HasSpace /\ last.op = "transform"
    /\ Distinct(folded_axes(S)) /\ LaidOut
    /\ Len(folded_axes(S)) = 3 /\ Len(S.axes) = 2
    /\ X.data # [n \in 1..NpSize(X) |-> n]
    /\ \E A \in Targets : Regrouping(S, A) /\ fold_axes(A) # folded_axes(S)

\* C8: transform succeeds exactly when every leaf of the Space is a leaf of
\* the target; then the result's leaves are the target's and every leaf new
\* to the Space has extent 1; when the target drops a leaf the call fails
\* on its assertion.
C8_SucceedsIffSubset ==
    HasSpace =>
        \A A \in Targets :
            \A order \in MissingOrders(S, A) :
                \E r \in {transform(S, X, A, order)} :
                    /\ r.ok <=> Leaves(S) \subseteq Range(fold_axes(A))
                    /\ r.ok =>
                         /\ Leaves(r.space) = Range(fold_axes(A))
                         /\ \A l \in Range(fold_axes(A)) \ Leaves(S) :
                                OdGet(r.space.extent, l, 0) = 1
                    /\ ~ (Leaves(S) \subseteq Range(fold_axes(A))) =>
                         r.err = "AssertionError"

\* C8 between Spaces and targets with pairwise distinct leaf labels
SucceedsIffSubsetDistinct ==
    (HasSpace /\ Distinct(folded_axes(S)) /\ LaidOut) =>
        \A A \in Targets :
            \A order \in MissingOrders(S, A) :
                \E r \in {transform(S, X, A, order)} :
                    /\ r.ok <=> /\ Leaves(S) \subseteq Range(fold_axes(A))
                                /\ Distinct(fold_axes(A))
                    /\ r.ok =>
                         /\ Leaves(r.space) = Range(fold_axes(A))
                         /\ \A l \in Range(fold_axes(A)) \ Leaves(S) :
                                OdGet(r.space.extent, l, 0) = 1
                    /\ ~ (Leaves(S) \subseteq Range(fold_axes(A))) =>
                         r.err = "AssertionError"

\* the result of broadcasting replicas is sp with the extents multiplied
\* and, leaf by leaf, the array repeated along the replicated leaves
Replicated(sp, A, replicas, r) ==
    /\ r.ok
    /\ r.space.axes = sp.axes
    /\ \A l \in Leaves(sp) :
           OdGet(r.space.extent, l, 0) = OdGet(sp.extent, l, 0) * OdGet(replicas, l, 1)
    /\ size(r.space) = size(sp) * Prod(OdValues(replicas))
    /\ NpSize(r.X) = size(r.space)
    /\ \E f0 \in {fold(sp, A)}, f1 \in {fold(r.space, r.X)} :
           /\ f0.ok /\ f1.ok
           /\ \A n \in 1..NpSize(r.X) :
                  \E idx \in {Unravel(n-1, f1.X.shape)} :
                      f1.X.data[n] =
                          NpAt(f0.X, [j \in 1..Len(idx) |-> idx[j] % f0.X.shape[j]])

\* C9: for a Space and the array it describes, broadcasting a leaf a by a
\* positive count n returns the same axes, a's extent times n and the other
\* extents as they were, and the array repeated n times along a; with
\* several leaves the size grows by the product of the counts.
C9_BroadcastReplicates ==
    (HasSpace /\ X.shape = shape(S)) =>
        \A replicas \in Replicas :
            (/\ replicas # <<>>
             /\ \A i \in 1..Len(replicas) :
                    replicas[i].k \in Leaves(S) /\ replicas[i].v >= 1)
            => \E r \in {broadcast(S, X, replicas)} : Replicated(S, X, replicas, r)

\* C9 on Spaces with pairwise distinct leaf labels
BroadcastReplicatesDistinct ==
    (HasSpace /\ X.shape = shape(S) /\ Distinct(folded_axes(S))) =>
        \A replicas \in Replicas :
            (/\ replicas # <<>>
             /\ \A i \in 1..Len(replicas) :
                    replicas[i].k \in Leaves(S) /\ replicas[i].v >= 1)
            => \E r \in {broadcast(S, X, replicas)} : Replicated(S, X, replicas, r)

\* C10: in every Space reached from Space.infer by transform, broadcast,
\* set_extent and clone, the leaf labels of axes are pairwise distinct and
\* each has exactly one entry in extent.
C10_LeavesDistinctWithExtent ==
    cur # NoObj =>
        /\ Distinct(folded_axes(S))
        /\ \A l \in Leaves(S) :
               Cardinality({i \in 1..Len(S.extent) : S.extent[i].k = l}) = 1

\* --------------------------------------------------------- provider claims
D == Len(dataX)
Constructed == phase # "new"
\* the rows of a batch as they are stored, the padding of a sequence cut off
RawRows(b) ==
    IF kind = "mb" THEN b.X
    ELSE [i \in 1..Len(b.X) |-> SubSeq(b.X[i], 1, b.lengths[i])]
\* the label of a returned row: the column of the 1 in a one-hot row
LabelOf(y) == IF kind = "ls" THEN (CHOOSE c \in 1..Len(y) : y[c] = 1) - 1 ELSE y

\* C4: with batches_per_epoch >= 1 the index is -1 after construction and,
\* after the k-th next_batch, (k-1) mod batches_per_epoch, within
\* [0, batches_per_epoch); a call shuffles exactly when it sets the index to
\* 0 (and, in the sequence providers, shuffle is true).
C4_IndexCycle ==
    (phase = "ready" /\ batches_per_epoch >= 1) =>
        /\ calls = 0 => batch_index = -1
        /\ calls >= 1 =>
             /\ batch_index \in 0..(batches_per_epoch - 1)
             /\ batch_index = (calls - 1) % batches_per_epoch
             /\ shuffled <=> (batch_index = 0 /\ (kind = "mb" \/ shuffle))

\* a sequence provider that shuffles has gone round an epoch of two
\* batches and shuffled on the wrap
C4_Witness ==
    /\ phase = "ready" /\ kind = "ps" /\ shuffle
    /\ batches_per_epoch = 2 /\ calls = 3 /\ batch_index = 0 /\ shuffled

\* the slices of an epoch so far are those of the stored dataset, in order
EpochSlices ==
    /\ batches_per_epoch = D \div batch_size
    /\ calls >= 1 =>
         /\ RawRows(out) = SubSeq(dataX, batch_index * batch_size + 1,
                                  (batch_index + 1) * batch_size)
         /\ visited = SubSeq(dataX, 1, (batch_index + 1) * batch_size)
         /\ Distinct(visited)
         /\ batch_index = batches_per_epoch - 1 =>
                Len(visited) = batch_size * (D \div batch_size)
    /\ calls = batches_per_epoch + 1 => batch_index = 0

\* C5 as stated: with 1 <= B <= D, batches_per_epoch is floor(D/B); the
\* batches since the last wrap are the slices [i*B, (i+1)*B) of the dataset
\* as it is stored, each row once, B*floor(D/B) rows by the end of the
\* epoch; the call after batches_per_epoch calls sets the index to 0, and
\* every call that sets the index to 0 reshuffles.
C5_EpochThenReshuffle ==
    (phase = "ready" /\ 1 <= batch_size /\ batch_size <= D) =>
        /\ EpochSlices
        /\ (calls >= 1 /\ batch_index = 0) => shuffled

\* C5 as amended: the same, and a call that sets the index to 0 reshuffles
\* unless the provider is a sequence provider built with shuffle false.
C5_EpochThenReshuffleIfEnabled ==
    (phase = "ready" /\ 1 <= batch_size /\ batch_size <= D) =>
        /\ EpochSlices
        /\ (calls >= 1 /\ batch_index = 0) => (shuffled <=> (kind = "mb" \/ shuffle))

\* the second batch of an epoch of two batches of two rows, out of a
\* dataset that the first call of the epoch has reordered
C5_Witness ==
    /\ phase = "ready" /\ batch_size = 2 /\ batches_per_epoch = 2
    /\ calls = 4 /\ batch_index = 1
    /\ dataX # X0(kind, D)
    /\ Len(visited) = 4

\* C6: in the array provider (X, Y, lengths) and the labelled provider
\* (X, Y), whatever calls were made, the entries stored at an index come
\* from one row of the dataset given, and every row of a returned batch
\* comes with its own label and length.
C6_RowCorrespondence ==
    (Constructed /\ kind \in {"mb", "ls"}) =>
        /\ Len(dataY) = D
        /\ kind = "mb" => Len(dataLengths) = D
        /\ \A i \in 1..D :
               \E j \in 1..D :
                   /\ dataX[i] = X0(kind, D)[j]
                   /\ dataY[i] = Y0(kind, D)[j]
                   /\ kind = "mb" => dataLengths[i] = Lengths0(kind, D)[j]
        /\ out.some =>
               /\ Len(out.Y) = Len(out.X) /\ Len(out.lengths) = Len(out.X)
               /\ \A i \in 1..Len(out.X) :
                      \E j \in 1..D :
                          /\ RawRows(out)[i] = X0(kind, D)[j]
                          /\ LabelOf(out.Y[i]) = Y0(kind, D)[j]
                          /\ out.lengths[i] = IF kind = "mb" THEN Lengths0(kind, D)[j]
                                              ELSE Len(X0(kind, D)[j])

\* a batch of two rows returned from a dataset that a shuffle has reordered
C6_Witness ==
    /\ phase = "ready" /\ kind = "ls" /\ shuffle
    /\ dataX # X0(kind, D) /\ dataY # Y0(kind, D)
    /\ out.some /\ Len(out.X) = 2

\* C7: a provider built with a batch size <= 0 or greater than the number
\* of rows fails in its constructor: there is no such provider, and none
\* returns a batch.
C7_BadBatchSizeRejected ==
    (Constructed /\ (batch_size <= 0 \/ batch_size > D)) =>
        /\ phase = "raised" /\ calls = 0
        /\ ~ out.some

\* ------------------------------------------------------- more Space claims

\* infer succeeds exactly on as many labels as dimensions, and otherwise
\* fails on its assertion and returns no Space
InferChecksRank ==
    \A A \in Arrays, labels \in InferLists :
        \E r \in {infer(A, labels)} :
            /\ r.ok <=> Len(labels) = Len(A.shape)
            /\ ~ r.ok => r.err = "AssertionError" /\ r.space = NoSpace

\* the Space of the last infer has a flat axis list, the i-th label with
\* the i-th dimension of the array as its extent
InferredFrom(sp, A) ==
    /\ Len(sp.axes) = Len(A.shape)
    /\ \A i \in 1..Len(sp.axes) :
           /\ Len(sp.axes[i]) = 1
           /\ OdGet(sp.extent, sp.axes[i][1], 0) = A.shape[i]
    /\ shape(sp) = A.shape
    /\ folded_shape(sp) = A.shape

\* C11: infer(X, axes) with as many labels as X has dimensions returns a
\* Space with those axes whose extent for the i-th label is X's i-th
\* dimension, so that shape = folded_shape = X.shape; with another number
\* of labels it fails on its assertion and returns no Space.
C11_InferExtents ==
    /\ InferChecksRank
    /\ (last.op = "infer" /\ last.ok) => InferredFrom(S, X)
    /\ (last.op = "infer" /\ ~ last.ok) =>
           last.err = "AssertionError" /\ cur = NoObj

\* C11 for label lists without a repeated label
InferExtentsDistinct ==
    /\ InferChecksRank
    /\ (last.op = "infer" /\ last.ok /\ Distinct(folded_axes(S))) =>
           InferredFrom(S, X)
    /\ (last.op = "infer" /\ ~ last.ok) =>
           last.err = "AssertionError" /\ cur = NoObj

\* ---------------------------------------------------- more provider claims
\* the stored rows the last next_batch sliced
SlicedRows ==
    PySlice(dataX, batch_start(batch_index, batch_size),
            batch_end(batch_index, batch_size))

\* C12: in both sequence providers a returned batch holds the rows of the
\* current slice, each the stored row followed by copies of the padding
\* value up to the longest row of that slice; lengths holds the rows'
\* lengths before padding, in row order; space_below has b = the number of
\* rows and w = that longest length.
C12_PadsBatchRows ==
    (kind \in {"ps", "ls"} /\ out.some) =>
        \E raw \in {SlicedRows} :
            /\ raw # <<>>
            /\ \E m \in {Max([i \in 1..Len(raw) |-> Len(raw[i])])} :
                   /\ Len(out.X) = Len(raw)
                   /\ Len(out.lengths) = Len(raw)
                   /\ \A i \in 1..Len(raw) :
                          /\ Len(out.X[i]) = m
                          /\ SubSeq(out.X[i], 1, Len(raw[i])) = raw[i]
                          /\ \A j \in (Len(raw[i]) + 1)..m : out.X[i][j] = padding
                          /\ out.lengths[i] = Len(raw[i])
                   /\ folded_axes(out.space_below) = <<"b", "w">>
                   /\ OdGet(out.space_below.extent, "b", 0) = Len(raw)
                   /\ OdGet(out.space_below.extent, "w", 0) = m

\* a batch of two rows of lengths 1 and 2 out of a dataset that holds a
\* row of length 3: the shorter row was padded, to length 2
C12_Witness ==
    /\ kind = "ps" /\ out.some /\ phase = "ready"
    /\ D = 4 /\ \E i \in 1..D : Len(dataX[i]) = 3
    /\ Len(out.X) = 2 /\ Range(out.lengths) = {1, 2}
    /\ \A i \in 1..2 : Len(out.X[i]) = 2
    /\ \E i \in 1..2 : out.X[i][2] = padding

\* ------------------------------------------------------ Space claims, cont.
\* the grouped axes over leaves of sp: lists of distinct leaf labels of sp
GroupsOf(sp) ==
    {g \in ListsOver(Leaves(sp), Cardinality(Leaves(sp))) : Distinct(g)}

\* get_extent([g]) is the product of get_extent over the leaves of g
GroupExtentIsProduct(sp) ==
    \A g \in GroupsOf(sp) :
        get_extent(sp, <<g>>) =
            <<Prod(get_extent(sp, [i \in 1..Len(g) |-> <<g[i]>>]))>>

\* C13: for every Space S and grouped axis g over leaves of S,
\* get_extent([g]) is the product of what get_extent returns for the leaves
\* of g; and the product of shape, the product of folded_shape and size
\* are the same number.
C13_GroupExtentIsProduct ==
    cur # NoObj =>
        /\ GroupExtentIsProduct(S)
        /\ Prod(shape(S)) = Prod(folded_shape(S))
        /\ Prod(folded_shape(S)) = size(S)

\* C13 on Spaces whose leaves are distinct and are the keys of the extent
GroupExtentIsProductAligned ==
    (cur # NoObj /\ Distinct(folded_axes(S))
                 /\ Range(OdKeys(S.extent)) = Leaves(S)) =>
        /\ GroupExtentIsProduct(S)
        /\ Prod(shape(S)) = Prod(folded_shape(S))
        /\ Prod(folded_shape(S)) = size(S)

\* ------------------------------------------------- provider claims, cont.
\* the stored labels the last next_batch sliced
SlicedLabels ==
    PySlice(dataY, batch_start(batch_index, batch_size),
            batch_end(batch_index, batch_size))

\* C14: in the labelled provider the label matrix of a batch has one row
\* for each row of the batch (batch_size rows when 1 <= batch_size <= D)
\* and max(y) + 1 columns, y the labels of that batch; row i holds 1 in
\* column y_i and 0 in every other column.
C14_OneHotBatchWidth ==
    (kind = "ls" /\ out.some) =>
        \E ys \in {SlicedLabels} :
            /\ ys # <<>>
            /\ Len(out.Y) = Len(ys) /\ Len(out.Y) = Len(out.X)
            /\ (1 <= batch_size /\ batch_size <= D) => Len(out.Y) = batch_size
            /\ \A i \in 1..Len(ys) :
                   /\ Len(out.Y[i]) = Max(ys) + 1
                   /\ \A c \in 1..Len(out.Y[i]) :
                          out.Y[i][c] = IF c - 1 = ys[i] THEN 1 ELSE 0

\* a batch with the labels 0 and 1 out of a dataset that holds the label
\* 2: the matrix is two columns wide
C14_Witness ==
    /\ kind = "ls" /\ out.some /\ phase = "ready"
    /\ 2 \in Range(dataY)
    /\ Range(SlicedLabels) = {0, 1}
    /\ Len(out.Y) = 2 /\ \A i \in 1..2 : Len(out.Y[i]) = 2

\* the rows at the positions B*floor(D/B) and above of a dataset
RemainderRows(Xs) ==
    {Xs[i] : i \in (batch_size * (D \div batch_size) + 1)..Len(Xs)}
Uneven == batch_size >= 1 /\ D % batch_size # 0

\* C15 as stated: when D is not a multiple of B, the rows at the positions
\* B*floor(D/B) and above of the dataset given to the constructor are in
\* no batch, whatever calls and shuffles were made.
C15_RemainderNeverReturned ==
    (Uneven /\ out.some) =>
        Range(RawRows(out)) \cap RemainderRows(X0(kind, D)) = {}

\* C15 as amended: when D is not a multiple of B, the rows at the
\* positions B*floor(D/B) and above of the dataset as it is stored are in
\* no batch of the epoch; they are the last rows of the dataset given to
\* the constructor if the provider never shuffles (a sequence provider
\* with shuffle false).
C15_RemainderOfOrderingSkipped ==
    (Uneven /\ out.some) =>
        /\ Range(RawRows(out)) \cap RemainderRows(dataX) = {}
        /\ Range(visited) \cap RemainderRows(dataX) = {}
        /\ (kind # "mb" /\ ~ shuffle) =>
               Range(RawRows(out)) \cap RemainderRows(X0(kind, D)) = {}

\* the second epoch of a provider of 3 rows and batch size 2 that
\* shuffles: the row left out is not the last row given
C15_Witness ==
    /\ phase = "ready" /\ out.some
    /\ D = 3 /\ batch_size = 2 /\ calls = 2
    /\ dataX[3] # X0(kind, D)[3]
    /\ dataX[3] \notin Range(RawRows(out))

\* --------------------------------------------------- Space claims, cont. 2
\* the extents of the leaves of sp, looked up by label, in the order of
\* folded_axes
LeafDims(sp) ==
    [i \in 1..Len(folded_axes(sp)) |-> OdGet(sp.extent, folded_axes(sp)[i], 0)]

\* C16: for a Space with pairwise distinct leaves and the array it
\* describes, transform to any regrouping and reordering of the leaves
\* returns an array that holds, at every assignment of an index to every
\* leaf, the element the given array holds at that assignment.
C16_NamedCoordinatesKept ==
    (HasSpace /\ Distinct(folded_axes(S)) /\ LaidOut) =>
        \A A \in Targets :
            Regrouping(S, A) =>
                \E r \in {transform(S, X, A, <<>>)} :
                    /\ r.ok
                    /\ NpSize(r.X) = NpSize(X)
                    /\ r.X.shape = shape(r.space)
                    /\ \A n \in 1..NpSize(X) :
                           \E idx0 \in {Unravel(n - 1, LeafDims(S))} :
                               r.X.data[Ravel([i \in 1..Len(fold_axes(A)) |->
                                                   idx0[IndexOf(folded_axes(S), fold_axes(A)[i])]],
                                              LeafDims(r.space)) + 1] = X.data[n]

\* a transform has put two leaves of extent 2 the other way round: the
\* elements of the array have moved
C16_Witness ==
    /\ HasSpace /\ last.op = "transform"
    /\ Distinct(folded_axes(S)) /\ LaidOut
    /\ LeafDims(S) = <<2, 2>>
    /\ X.data = <<1, 3, 2, 4>>

\* broadcast with a label that is no leaf of the Space fails
BroadcastRejectsUnknown ==
    HasSpace =>
        \A l \in Labels \ Leaves(S), n \in 1..MaxRep :
            ~ broadcast(S, X, <<[k |-> l, v |-> n]>>).ok

\* C17: set_extent, broadcast and get_extent fail on a label that is no
\* leaf of the Space, and the extent map gains no entry for such a label:
\* no Space holds an extent for a label that is not among its leaves.
C17_UnknownLabelRejected ==
    /\ BroadcastRejectsUnknown
    /\ HasSpace =>
           \A l \in Labels \ Leaves(S) : ~ get_extent_call(S, <<<<l>>>>).ok
    /\ (HasSpace /\ last.op = "set_extent") =>
           Range(OdKeys(S.extent)) \subseteq Leaves(S)

\* ----------------------------------------------- provider claims, cont. 2
\* the index the k-th next_batch sets
IndexOfCall(k) == (k - 1) % batches_per_epoch

\* C18: a sequence provider built with shuffle false (and at least one
\* batch per epoch) never reorders its dataset, and its k-th next_batch
\* returns the rows at [i*B, i*B + B), i = (k-1) mod batches_per_epoch, of
\* the dataset given to the constructor, with the metadata of those rows:
\* the batch is decided by (k-1) mod batches_per_epoch alone, so calls k and
\* k + batches_per_epoch return the same.
C18_FixedOrderCycle ==
    (Constructed /\ kind \in {"ps", "ls"} /\ ~ shuffle /\ batches_per_epoch >= 1) =>
        /\ phase = "ready"
        /\ dataX = X0(kind, D) /\ dataY = Y0(kind, D)
        /\ ~ shuffled
        /\ calls >= 1 =>
               /\ out.some
               /\ batch_index = IndexOfCall(calls)
               /\ RawRows(out) = SubSeq(X0(kind, D), IndexOfCall(calls) * batch_size + 1,
                                        IndexOfCall(calls) * batch_size + batch_size)
               /\ out = make_batch(kind, X0(kind, D), Y0(kind, D), <<>>,
                                   IndexOfCall(calls), batch_size, padding).batch

\* the third call of a padded provider that does not shuffle, two batches
\* to the epoch: the first batch again
C18_Witness ==
    /\ kind = "ps" /\ ~ shuffle /\ phase = "ready"
    /\ batches_per_epoch = 2 /\ batch_size = 2 /\ calls = 3
    /\ out.some /\ RawRows(out) = SubSeq(X0(kind, D), 1, 2)

\* --------------------------------------------------- Space claims, cont. 3
\* the keys of the extent, in order, are the leaves of the axes, in order
Aligned(sp) ==
    /\ OdKeys(sp.extent) = folded_axes(sp)
    /\ Len(folded_shape(sp)) = Len(folded_axes(sp))
    /\ \A i \in 1..Len(folded_axes(sp)) :
           folded_shape(sp)[i] = OdGet(sp.extent, folded_axes(sp)[i], 0)

\* C19: in every Space reached from infer by transform, broadcast and
\* set_extent with labels the Space knows (so that every key of the extent
\* is a leaf), the keys of the extent are in the order of folded_axes, and
\* folded_shape[i] is the extent of folded_axes[i].
C19_ExtentOrderAligned ==
    (cur # NoObj /\ Range(OdKeys(S.extent)) \subseteq Leaves(S)) => Aligned(S)

\* C19 on Spaces with pairwise distinct leaf labels
ExtentOrderAlignedDistinct ==
    (cur # NoObj /\ Range(OdKeys(S.extent)) \subseteq Leaves(S)
                 /\ Distinct(folded_axes(S))) => Aligned(S)

\* the sequence a holds the entries of the sequence b, each as often, in
\* some order
PermutationOf(a, b) ==
    /\ Len(a) = Len(b)
    /\ \E perm \in Perms(Len(b)) : a = Take(b, perm)

\* a returned batch of padded rows leaves the stored rows as long as they
\* were: every returned row is a stored row followed by padding
PaddingLeavesStoredRows ==
    (out.some /\ kind # "mb") =>
        \A i \in 1..Len(out.X) :
            \E j \in 1..D :
                /\ Len(dataX[j]) = out.lengths[i]
                /\ dataX[j] = SubSeq(out.X[i], 1, out.lengths[i])

\* the same on a dataset every array of which has D entries: one
\* permutation of the rows given carries all the arrays
DatasetPreservedEqualRows ==
    Constructed =>
        /\ \E perm \in Perms(D) :
               /\ dataX = Take(X0(kind, D), perm)
               /\ kind # "ps" => dataY = Take(Y0(kind, D), perm)
               /\ kind = "mb" => dataLengths = Take(Lengths0(kind, D), perm)
        /\ kind = "ps" => dataY = <<>>
        /\ kind # "mb" => dataLengths = <<>>
        /\ PaddingLeavesStoredRows

\* C20: whatever next_batch calls were made on a provider, whatever arrays
\* its constructor accepted, the dataset it stores is a permutation of the
\* dataset given to the constructor: every array holds the entries it was
\* given, none added, dropped or repeated, arrays of one length permuted
\* alike; and the stored rows are as long as they were given, also those
\* returned padded.
C20_DatasetPreserved ==
    Constructed =>
        /\ PermutationOf(dataX, given.X)
        /\ PermutationOf(dataY, given.Y)
        /\ PermutationOf(dataLengths, given.lengths)
        /\ (kind = "ls" /\ Len(given.Y) = Len(given.X)) =>
               \E perm \in Perms(Len(given.X)) :
                   dataX = Take(given.X, perm) /\ dataY = Take(given.Y, perm)
        /\ (kind = "mb" /\ Len(given.Y) = Len(given.X)
                        /\ Len(given.lengths) = Len(given.X)) =>
               \E perm \in Perms(Len(given.X)) :
                   /\ dataX = Take(given.X, perm)
                   /\ dataY = Take(given.Y, perm)
                   /\ dataLengths = Take(given.lengths, perm)
        /\ PaddingLeavesStoredRows

====
